---- MODULE Spec2Model ----
(***************************************************************************)
(* Geometric layout core of the furniture decoration agent:                *)
(*   - overlap detection and layering (assignLayeringOrder),               *)
(*   - the deterministic fallback planner (generateFallbackStrategy),      *)
(*   - the arrangement pipeline (arrangeFurniture) with the symmetry       *)
(*     post-processing (enforceSymmetricalArrangement) and the space       *)
(*     utilization metric,                                                 *)
(*   - the pure functions classifyFurniture, findBestWall, detectOverlap   *)
(*     and evaluateDecoration, each called on bounded arguments,           *)
(*   - the decoration workflow from its arrangement step on, and the       *)
(*     furniture selection (selectFurnitureWithSymmetry).                  *)
(*                                                                         *)
(* Lengths of the pipeline are integers in units of 1/20 ft (12 ft = 240,  *)
(* 0.25 ft = 5), so that every fraction the code uses (halves, 0.2, 0.25,  *)
(* 0.4, 0.6, 0.7, 0.75, 0.8 of a room extent) is exact on the chosen       *)
(* inputs; arithmetic is exact, not IEEE floating point.                   *)
(***************************************************************************)
EXTENDS Integers, Sequences, FiniteSets, TLC

VARIABLES
  pc,                 \* position of the caller in the scenario
  furniture,          \* footprint list handed to assignLayeringOrder
  layered,            \* list returned by assignLayeringOrder(furniture)
  relayered,          \* list returned by assignLayeringOrder(layered)
  room,               \* arrangeFurniture: parameter room
  selectedFurniture,  \* arrangeFurniture: parameter selectedFurniture
  index,              \* generateFallbackStrategy: map index (0-based)
  x, y,               \* generateFallbackStrategy: let x, y of the callback
  boundedCenterX,     \* generateFallbackStrategy: const boundedCenterX
  reasoning,          \* generateFallbackStrategy: let reasoning
  attempts,           \* generateFallbackStrategy: let attempts
  placedFurniture,    \* generateFallbackStrategy: placedFurniture array
  placementZones,     \* generateFallbackStrategy: zones returned so far
  aiArrangementStrategy, \* arrangeFurniture: the strategy object
  result,             \* value returned by arrangeFurniture
  reprocessed,        \* enforceSymmetricalArrangement applied to its output
  args,               \* a call of one of the pure functions: its arguments
  returned,           \* the value that call returned
  inputData,          \* furnitureArrangementStep: which fields inputData has
  error,              \* message of the Error a workflow step threw, or ""
  evaluation,         \* value returned by evaluateDecoration
  visualization,      \* value returned by topViewVisualizationStep
  furnitureByCategory, \* selectFurnitureWithSymmetry: the Map, as its entries
  budget,             \* selectFurnitureWithSymmetry: parameter budget
  categoryIndex,      \* selectFurnitureWithSymmetry: position in the loops
  processedCategories, \* selectFurnitureWithSymmetry: processedCategories
  totalCost,          \* selectFurnitureWithSymmetry: let totalCost
  symmetricalPairCount, \* selectFurnitureWithSymmetry: let symmetricalPairs
  singleItems         \* selectFurnitureWithSymmetry: let singleItems

layerVars == <<furniture, layered, relayered>>
inputVars == <<room, selectedFurniture>>
loopVars == <<index, x, y, boundedCenterX, reasoning, attempts,
              placedFurniture, placementZones>>
outputVars == <<aiArrangementStrategy, result, reprocessed>>
callVars == <<args, returned>>
flowVars == <<inputData, error, evaluation, visualization>>
selectVars == <<furnitureByCategory, budget, categoryIndex, processedCategories,
                totalCost, symmetricalPairCount, singleItems>>
stepVars == <<flowVars, selectVars>>
vars == <<pc, layerVars, inputVars, loopVars, outputVars, callVars, stepVars>>

----------------------------------------------------------------------------
(* Generic helpers                                                         *)

Min(a, b) == IF a < b THEN a ELSE b
Max(a, b) == IF a > b THEN a ELSE b
Abs(a) == IF a < 0 THEN -a ELSE a

\* Array.prototype.sort with a consistent comparator is a stable sort;
\* before holds the pairs <<i, j>> of positions with
\* comparator(s[i], s[j]) < 0.
StableSort(s, before) ==
  LET n == Len(s)
      rank(i) == Cardinality({j \in (1..n) \ {i} :
                     <<j, i>> \in before \/ (<<i, j>> \notin before /\ j < i)})
  IN [k \in 1..n |-> s[CHOOSE i \in 1..n : rank(i) = k - 1]]

\* the pairs of positions of s
PositionPairs(s) == (1..Len(s)) \X (1..Len(s))

\* the elements of a set of integers in ascending order
RECURSIVE Ascending(_)
Ascending(S) ==
  IF S = {} THEN <<>>
  ELSE LET m == CHOOSE a \in S : \A b \in S : a <= b
       IN <<m>> \o Ascending(S \ {m})

----------------------------------------------------------------------------
(* Overlap detection and layering                                          *)

\* a mutual test that counts touching footprints as overlapping
OverlapOrTouch(item1, item2) ==
  ~(\/ 2 * item1.x + item1.width < 2 * item2.x - item2.width
    \/ 2 * item2.x + item2.width < 2 * item1.x - item1.width
    \/ 2 * item1.y + item1.length < 2 * item2.y - item2.length
    \/ 2 * item2.y + item2.length < 2 * item1.y - item1.length)

\* a test that finds no overlap at all
NoOverlap(item1, item2) == FALSE

\* Bounds are compared doubled (2*left = 2*x - width), which keeps them
\* integers and leaves every comparison of the code unchanged.
detectOverlap(item1, item2) ==
  LET item1Left   == 2 * item1.x - item1.width
      item1Right  == 2 * item1.x + item1.width
      item1Top    == 2 * item1.y - item1.length
      item1Bottom == 2 * item1.y + item1.length
      item2Left   == 2 * item2.x - item2.width
      item2Right  == 2 * item2.x + item2.width
      item2Top    == 2 * item2.y - item2.length
      item2Bottom == 2 * item2.y + item2.length
  IN ~(\/ item1Right <= item2Left
       \/ item2Right <= item1Left
       \/ item1Bottom <= item2Top
       \/ item2Bottom <= item1Top)

calculateFurnitureArea(item) == item.width * item.length

\* a group sort that puts the smallest area first
AreaAscending(a, b) == a.area < b.area

\* comparator of the group sort: (a, b) => b.area - a.area
AreaDescending(a, b) == a.area > b.area

\* a final sort that leaves the list in its input order
LayerUnordered(a, b) == FALSE

\* comparator of the final sort: (a, b) => a.layerOrder - b.layerOrder
LayerAscending(a, b) == a.layerOrder < b.layerOrder

\* The forEach over furnitureWithLayers, from position index on.  The field
\* cluster is a history field of the model: the index of the seed whose
\* overlappingGroup the item was collected into.
RECURSIVE GroupFrom(_, _, _)
GroupFrom(items, seed, processed) ==
  IF seed > Len(items) THEN items
  ELSE IF seed \in processed THEN GroupFrom(items, seed + 1, processed)
  ELSE
    LET others == {i \in (seed + 1)..Len(items) :
                      i \notin processed /\ detectOverlap(items[seed], items[i])}
        overlappingGroup == <<seed>> \o Ascending(others)
        sorted == StableSort(overlappingGroup,
                    {p \in PositionPairs(overlappingGroup) :
                       AreaDescending(items[overlappingGroup[p[1]]],
                                      items[overlappingGroup[p[2]]])})
        layerIndex(i) == (CHOOSE k \in 1..Len(sorted) : sorted[k] = i) - 1
        updated == [i \in 1..Len(items) |->
                      IF i \in {seed} \cup others
                      THEN [items[i] EXCEPT !.layerOrder = layerIndex(i),
                                            !.cluster = seed]
                      ELSE items[i]]
    IN GroupFrom(updated, seed + 1, processed \cup {seed} \cup others)

assignLayeringOrder(list) ==
  LET furnitureWithLayers ==
        [i \in 1..Len(list) |->
           [id |-> list[i].id, x |-> list[i].x, y |-> list[i].y,
            width |-> list[i].width, length |-> list[i].length,
            originalIndex |-> i,
            area |-> calculateFurnitureArea(list[i]),
            layerOrder |-> 0,
            cluster |-> 0]]
  IN LET grouped == GroupFrom(furnitureWithLayers, 1, {})
     IN StableSort(grouped,
                   {p \in PositionPairs(grouped) :
                      LayerAscending(grouped[p[1]], grouped[p[2]])})

----------------------------------------------------------------------------
(* Catalog items, ids and names                                            *)

\* An id is a stem followed by an optional positional suffix, a display
\* name a (lower-cased) base followed by an optional trailing word.  No stem
\* below contains a match of the id patterns, no base a trailing 1/2/Left/
\* Right word.
Id(stem, suffix) == [stem |-> stem, suffix |-> suffix]
Name(base, suffix) == [base |-> base, suffix |-> suffix]

\* id.replace(/-[12]|-left|-right|-chair[12]|-table[12]|-lamp[12]$/, '')
StripPairSuffix(id) ==
  IF id.suffix \in {"-1", "-2", "-left", "-right", "-chair1", "-chair2",
                    "-table1", "-table2", "-lamp1", "-lamp2"}
  THEN Id(id.stem, "") ELSE id

\* id.replace(/-left|-right|-chair1|-chair2$/, '')
StripSideSuffix(id) ==
  IF id.suffix \in {"-left", "-right", "-chair1", "-chair2"}
  THEN Id(id.stem, "") ELSE id

\* id.includes(needle), for the needles "-1", "-left", "-chair1"
IdIncludes(id, needle) == id.suffix = needle

\* name.replace(/\s+(1|2|Left|Right|left|right)$/, '')
BaseName(name) ==
  IF name.suffix \in {"1", "2", "Left", "Right", "left", "right"}
  THEN Name(name.base, "") ELSE name

\* name.toLowerCase().includes(needle): the needles each base contains
NameIncludes(name, needle) ==
  needle \in (CASE name.base = "modern queen bed frame" -> {"bed"}
                [] name.base = "modern nightstand" -> {"nightstand"}
                [] name.base = "round side table" -> {"side table"}
                [] name.base = "chairside table" -> {"side table", "chair"}
                [] name.base = "accent chair and side table set"
                     -> {"accent chair", "side table", "chair"}
                [] name.base = "oak dining chair" -> {"dining chair", "chair"}
                [] OTHER -> {})

\* dimensions are <<Length, Width>>
BedQueenModern ==
  [id |-> Id("bed-queen-modern", ""), name |-> Name("modern queen bed frame", ""),
   category_id |-> "bed-frame", dimensions |-> <<130, 100>>]
NightstandModern1 ==
  [id |-> Id("nightstand-modern", "-1"), name |-> Name("modern nightstand", ""),
   category_id |-> "nightstand", dimensions |-> <<30, 26>>]
NightstandModern2 ==
  [id |-> Id("nightstand-modern", "-2"), name |-> Name("modern nightstand", ""),
   category_id |-> "nightstand", dimensions |-> <<30, 26>>]
DresserModern ==
  [id |-> Id("dresser-modern", ""), name |-> Name("modern dresser", ""),
   category_id |-> "dresser", dimensions |-> <<80, 30>>]
FloorLampModern ==
  [id |-> Id("floor-lamp-modern", ""), name |-> Name("modern floor lamp", ""),
   category_id |-> "floor-lamp", dimensions |-> <<20, 20>>]
SideTableRound1 ==
  [id |-> Id("side-table-round", "-1"), name |-> Name("round side table", "1"),
   category_id |-> "side-table", dimensions |-> <<40, 40>>]
SideTableRound2 ==
  [id |-> Id("side-table-round", "-2"), name |-> Name("round side table", "2"),
   category_id |-> "side-table", dimensions |-> <<40, 40>>]

\* Pairs as selectFurnitureWithSymmetry makes them: one item cloned under the
\* ids <id>-1 and <id>-2, both clones with the item's name.
FloorLampArc1 ==
  [id |-> Id("floor-lamp-arc", "-1"), name |-> Name("arc floor lamp", ""),
   category_id |-> "floor-lamp", dimensions |-> <<20, 20>>]
FloorLampArc2 ==
  [id |-> Id("floor-lamp-arc", "-2"), name |-> Name("arc floor lamp", ""),
   category_id |-> "floor-lamp", dimensions |-> <<20, 20>>]
ChairsideTable1 ==
  [id |-> Id("side-table-chairside", "-1"), name |-> Name("chairside table", ""),
   category_id |-> "side-table", dimensions |-> <<40, 30>>]
ChairsideTable2 ==
  [id |-> Id("side-table-chairside", "-2"), name |-> Name("chairside table", ""),
   category_id |-> "side-table", dimensions |-> <<40, 30>>]
AccentChairSet1 ==
  [id |-> Id("accent-chair-set", "-1"),
   name |-> Name("accent chair and side table set", ""),
   category_id |-> "accent-chair", dimensions |-> <<50, 50>>]
AccentChairSet2 ==
  [id |-> Id("accent-chair-set", "-2"),
   name |-> Name("accent chair and side table set", ""),
   category_id |-> "accent-chair", dimensions |-> <<50, 50>>]
DiningChairOak1 ==
  [id |-> Id("dining-chair-oak", "-1"), name |-> Name("oak dining chair", ""),
   category_id |-> "dining-chair", dimensions |-> <<40, 40>>]
DiningChairOak2 ==
  [id |-> Id("dining-chair-oak", "-2"), name |-> Name("oak dining chair", ""),
   category_id |-> "dining-chair", dimensions |-> <<40, 40>>]

\* the default bedroom dataset
Catalog == {BedQueenModern, NightstandModern1, NightstandModern2, DresserModern,
            FloorLampModern}

\* pairs of tables and lamps
PairCatalog == {SideTableRound1, SideTableRound2, FloorLampArc1, FloorLampArc2}

\* pairs whose name or category mentions a chair
ChairCatalog == {ChairsideTable1, ChairsideTable2, AccentChairSet1,
                 AccentChairSet2, DiningChairOak1, DiningChairOak2}

Catalogs == {Catalog, PairCatalog, ChairCatalog}

Room(type, width, length) ==
  [type |-> type, dimensions |-> [width |-> width, length |-> length]]

Rooms == {Room("bedroom", 240, 200), Room("bedroom", 60, 80),
          Room("living-room", 200, 200)}

MaxItems == 3

\* lists of distinct items of one catalog
FurnitureLists ==
  UNION {{f \in [1..n -> items] : \A i, j \in 1..n : f[i] = f[j] => i = j} :
           <<n, items>> \in (0..MaxItems) \X Catalogs}

\* selectedFurniture.find(f => f.id === id); NoItem stands for undefined
NoItem == [id |-> Id("", ""), name |-> Name("", ""), category_id |-> "",
           dimensions |-> <<0, 0>>]
FindFurniture(selected, id) ==
  IF \E i \in 1..Len(selected) : selected[i].id = id
  THEN selected[CHOOSE i \in 1..Len(selected) :
                  /\ selected[i].id = id
                  /\ \A j \in 1..(i - 1) : selected[j].id # id]
  ELSE NoItem

----------------------------------------------------------------------------
(* The fallback planner: generateFallbackStrategy                          *)

\* roomWidth * 0.25 and the like, as a percentage
Frac(v, pct) == (v * pct) \div 100

\* the symmetricalPairs map: base id -> ids of the items with that base id
symmetricalPairs(selected) ==
  [b \in {StripPairSuffix(selected[i].id) : i \in 1..Len(selected)} |->
     LET at == {i \in 1..Len(selected) : StripPairSuffix(selected[i].id) = b}
         order == Ascending(at)
     IN [k \in 1..Len(order) |-> selected[order[k]].id]]

\* symmetricalPairs.get(baseId) || []
PairedItems(pairs, baseId) ==
  IF baseId \in DOMAIN pairs THEN pairs[baseId] ELSE <<>>

Placement(px, py, why) == [x |-> px, y |-> py, reasoning |-> why]

\* the room- and category-specific branch for a member of a pair
PairPlacement(item, roomWidth, roomLength, itemWidth, roomType) ==
  LET category == item.category_id
      first1 == IdIncludes(item.id, "-1")
  IN IF roomType = "bedroom" THEN
       IF category \in {"nightstand", "side-table"} THEN
         IF first1 \/ IdIncludes(item.id, "-left")
         THEN Placement(itemWidth \div 2 + 20, roomLength \div 2, "left pair")
         ELSE Placement(roomWidth - itemWidth \div 2 - 20, roomLength \div 2,
                        "right pair")
       ELSE IF category = "accent-chair" THEN
         IF first1 \/ IdIncludes(item.id, "-chair1")
         THEN Placement(Frac(roomWidth, 25), Frac(roomLength, 25), "first chair")
         ELSE Placement(Frac(roomWidth, 75), Frac(roomLength, 25), "second chair")
       ELSE IF category \in {"table-lamp", "floor-lamp"} THEN
         IF first1
         THEN Placement(itemWidth \div 2 + 20, Frac(roomLength, 70), "first lamp")
         ELSE Placement(roomWidth - itemWidth \div 2 - 20, Frac(roomLength, 70),
                        "second lamp")
       ELSE Placement(40, 40, "")
     ELSE IF roomType = "living-room" THEN
       IF category = "accent-chair" THEN
         IF first1 \/ IdIncludes(item.id, "-chair1")
         THEN Placement(Frac(roomWidth, 25), Frac(roomLength, 60), "first chair")
         ELSE Placement(Frac(roomWidth, 75), Frac(roomLength, 60), "second chair")
       ELSE IF category \in {"side-table", "end-table"} THEN
         IF first1
         THEN Placement(Frac(roomWidth, 20), Frac(roomLength, 40), "first table")
         ELSE Placement(Frac(roomWidth, 80), Frac(roomLength, 40), "second table")
       ELSE IF category = "table-lamp" THEN
         IF first1
         THEN Placement(Frac(roomWidth, 25), Frac(roomLength, 75), "first lamp")
         ELSE Placement(Frac(roomWidth, 75), Frac(roomLength, 75), "second lamp")
       ELSE Placement(40, 40, "")
     ELSE Placement(40, 40, "")

getUniversalSymmetricalPlacement(item, pairs, roomWidth, roomLength, itemWidth, itemLength, roomType, idx) ==
  LET pairedItems == PairedItems(pairs, StripPairSuffix(item.id))
      isSymmetrical == Len(pairedItems) = 2
      category == item.category_id
      specific == PairPlacement(item, roomWidth, roomLength, itemWidth, roomType)
  IN IF isSymmetrical THEN
       IF specific.x = 40 /\ specific.y = 40 THEN
         IF \/ IdIncludes(item.id, "-1") \/ IdIncludes(item.id, "-left")
            \/ IdIncludes(item.id, "-chair1")
         THEN Placement(Frac(roomWidth, 25), Frac(roomLength, 60), "first default")
         ELSE Placement(Frac(roomWidth, 75), Frac(roomLength, 60), "second default")
       ELSE specific
     ELSE IF category = "accent-chair" THEN
       Placement(Frac(roomWidth, 75), Frac(roomLength, 25), "single chair")
     ELSE IF category \in {"side-table", "end-table"} THEN
       Placement(roomWidth - itemWidth \div 2 - 20, Frac(roomLength, 50),
                 "single table")
     ELSE IF category \in {"table-lamp", "floor-lamp"} THEN
       Placement(Frac(roomWidth, 80), Frac(roomLength, 70), "single lamp")
     ELSE IF category = "nightstand" THEN
       Placement(roomWidth - itemWidth \div 2 - 20, roomLength \div 2,
                 "single nightstand")
     ELSE Placement(itemWidth \div 2 + 20 + idx * 60, itemLength \div 2 + 20,
                    "bottom wall")

\* the initial (x, y, reasoning) of the map callback, before bounds checking
InitialPlacement(rm, selected, idx) ==
  LET item == selected[idx + 1]
      itemWidth == item.dimensions[2]
      itemLength == item.dimensions[1]
      roomWidth == rm.dimensions.width
      roomLength == rm.dimensions.length
  IN IF rm.type = "bedroom" THEN
       IF item.category_id = "bed-frame"
       THEN Placement(20, (roomLength - itemLength) \div 2, "bed against wall")
       ELSE IF item.category_id = "dresser"
       THEN Placement(roomWidth - itemWidth - 20, 20, "dresser opposite wall")
       ELSE getUniversalSymmetricalPlacement(item, symmetricalPairs(selected),
              roomWidth, roomLength, itemWidth, itemLength, rm.type, idx)
     ELSE Placement(40, 40, "")

\* a clamp that lets the coordinate through unchanged
Unbounded(v, minCenter, maxCenter) == v

\* Math.max(minCenter, Math.min(v, maxCenter))
Bounded(v, minCenter, maxCenter) == Max(minCenter, Min(v, maxCenter))

minCenterXOf(item) == item.dimensions[2] \div 2
maxCenterXOf(rm, item) == rm.dimensions.width - item.dimensions[2] \div 2
minCenterYOf(item) == item.dimensions[1] \div 2
maxCenterYOf(rm, item) == rm.dimensions.length - item.dimensions[1] \div 2

maxAttempts == 10
MinClearance == 5

\* a retry that forgets to count the attempt
SameAttempt(n) == n

\* attempts++
NextAttempt(n) == n + 1

\* the predicate of placedFurniture.some(...)
TooClose(cx, cy, itemWidth, itemLength, placed) ==
  LET distanceX == Abs(cx - placed.centerX)
      distanceY == Abs(cy - placed.centerY)
  IN \* distances are compared doubled, to keep (w1 + w2) / 2 an integer
     /\ 2 * distanceX < (itemWidth + placed.width) + 2 * MinClearance
     /\ 2 * distanceY < (itemLength + placed.length) + 2 * MinClearance

hasCollision(cx, cy, item, placedList) ==
  \E k \in 1..Len(placedList) :
    TooClose(cx, cy, item.dimensions[2], item.dimensions[1], placedList[k])

NoRoom == Room("", 0, 0)
NoStrategy == [strategy |-> "", placementZones |-> <<>>]
NoResult == [arrangement |-> <<>>]

NoArgs == [fn |-> ""]
NoReturn == [none |-> TRUE]

\* no pure function is being called
NoCall ==
  /\ args = NoArgs
  /\ returned = NoReturn

NoInputData == [room |-> FALSE, selectedFurniture |-> FALSE,
                arrangementPreferences |-> FALSE]
NoEvaluation == [none |-> TRUE]
NoVisualization == [none |-> TRUE]

\* no workflow step is running
NoFlow ==
  /\ inputData = NoInputData
  /\ error = ""
  /\ evaluation = NoEvaluation
  /\ visualization = NoVisualization

\* selectFurnitureWithSymmetry is not running
NoSelection ==
  /\ furnitureByCategory = <<>>
  /\ budget = 0
  /\ categoryIndex = 0
  /\ processedCategories = {}
  /\ totalCost = 0
  /\ symmetricalPairCount = 0
  /\ singleItems = 0

IdleLoop ==
  /\ index = 0
  /\ x = 0
  /\ y = 0
  /\ boundedCenterX = 0
  /\ reasoning = ""
  /\ attempts = 0
  /\ placedFurniture = <<>>
  /\ placementZones = <<>>

Init ==
  /\ pc = "start"
  /\ furniture = <<>>
  /\ layered = <<>>
  /\ relayered = <<>>
  /\ room \in Rooms
  /\ selectedFurniture \in FurnitureLists
  /\ IdleLoop
  /\ aiArrangementStrategy = NoStrategy
  /\ result = NoResult
  /\ reprocessed = <<>>
  /\ NoCall
  /\ NoFlow
  /\ NoSelection

\* generateArrangementStrategy threw: generateFallbackStrategy is entered
FallbackBegin ==
  /\ pc = "start"
  /\ pc' = "place"
  /\ UNCHANGED <<stepVars, callVars, layerVars, inputVars, loopVars, outputVars>>

\* the map callback up to the collision loop: initial position, bounds
\* (initial is the one value the branches of lines 1600-1623 leave in x, y
\* and reasoning)
PlaceItem ==
  /\ pc = "place"
  /\ index < Len(selectedFurniture)
  /\ \E initial \in {InitialPlacement(room, selectedFurniture, index)} :
     LET item == selectedFurniture[index + 1]
         bx == Bounded(initial.x, minCenterXOf(item), maxCenterXOf(room, item))
         by == Bounded(initial.y, minCenterYOf(item), maxCenterYOf(room, item))
     IN /\ x' = bx
        /\ y' = by
        /\ boundedCenterX' = bx
        /\ reasoning' = initial.reasoning
  /\ attempts' = 0
  /\ pc' = "collide"
  /\ UNCHANGED <<stepVars, callVars, layerVars, inputVars, index, placedFurniture, placementZones,
                 outputVars>>

\* one iteration of the while loop that finds a collision and perturbs
RetryStep ==
  /\ pc = "collide"
  /\ attempts < maxAttempts
  /\ LET item == selectedFurniture[index + 1]
         minCenterX == minCenterXOf(item)
         maxCenterX == maxCenterXOf(room, item)
         minCenterY == minCenterYOf(item)
         maxCenterY == maxCenterYOf(room, item)
         n == NextAttempt(attempts)
         tx == IF n <= 3 THEN Min(x + 40, maxCenterX)
               ELSE IF n <= 6 THEN boundedCenterX
               ELSE Max(boundedCenterX - 40, minCenterX)
         ty == IF n <= 3 THEN y
               ELSE IF n <= 6 THEN Min(y + 40, maxCenterY)
               ELSE Min(y + 20, maxCenterY)
     IN /\ hasCollision(x, y, item, placedFurniture)
        /\ attempts' = n
        /\ x' = Bounded(tx, minCenterX, maxCenterX)
        /\ y' = Bounded(ty, minCenterY, maxCenterY)
  /\ UNCHANGED <<pc, stepVars, callVars, layerVars, inputVars, index, boundedCenterX, reasoning,
                 placedFurniture, placementZones, outputVars>>

\* the loop is left (position clear, or attempts used up); the item is
\* recorded and its zone returned from the callback
AcceptItem ==
  /\ pc = "collide"
  /\ \E pairedItems \in {PairedItems(symmetricalPairs(selectedFurniture),
                           StripSideSuffix(selectedFurniture[index + 1].id))} :
     LET item == selectedFurniture[index + 1]
         isSymmetrical == Len(pairedItems) = 2
         symmetryPartner ==
           IF isSymmetrical /\ \E k \in 1..2 : pairedItems[k] # item.id
           THEN pairedItems[CHOOSE k \in 1..2 :
                              /\ pairedItems[k] # item.id
                              /\ \A j \in 1..(k - 1) : pairedItems[j] = item.id]
           ELSE Id("", "")
     IN /\ attempts >= maxAttempts \/ ~hasCollision(x, y, item, placedFurniture)
        /\ placedFurniture' = Append(placedFurniture,
             [id |-> item.id, centerX |-> x, centerY |-> y,
              width |-> item.dimensions[2], length |-> item.dimensions[1]])
        /\ placementZones' = Append(placementZones,
             [furnitureId |-> item.id,
              zone |-> [x |-> x, y |-> y, rotation |-> 0,
                        priority |-> IF item.category_id \in {"bed-frame", "sofa"}
                                     THEN 3 ELSE 2],
              reasoning |-> reasoning,
              relationships |-> <<>>,
              isSymmetrical |-> isSymmetrical,
              symmetryPartner |-> symmetryPartner])
  /\ index' = index + 1
  /\ pc' = "place"
  /\ UNCHANGED <<stepVars, callVars, layerVars, inputVars, x, y, boundedCenterX, reasoning, attempts,
                 outputVars>>

\* selectedFurniture.reduce((sum, item) => sum + L * W, 0)
RECURSIVE totalFurnitureAreaOf(_)
totalFurnitureAreaOf(selected) ==
  IF selected = <<>> THEN 0
  ELSE selected[1].dimensions[1] * selected[1].dimensions[2]
       + totalFurnitureAreaOf(Tail(selected))

FallbackStrategyName == "Smart room-aware arrangement with symmetrical placement"

\* the map is over; generateFallbackStrategy returns its strategy object
FallbackReturn ==
  /\ pc = "place"
  /\ index >= Len(selectedFurniture)
  /\ LET totalFurnitureArea == totalFurnitureAreaOf(selectedFurniture)
         roomArea == room.dimensions.width * room.dimensions.length
     IN aiArrangementStrategy' =
          [strategy |-> FallbackStrategyName,
           placementZones |-> placementZones,
           skippedFurniture |-> <<>>,
           spaceUtilizationAnalysis |->
             [totalFurnitureArea |-> totalFurnitureArea,
              roomArea |-> roomArea,
              isOptimal |-> /\ 100 * totalFurnitureArea >= 15 * roomArea
                            /\ 100 * totalFurnitureArea <= 40 * roomArea]]
  /\ pc' = "strategy"
  /\ UNCHANGED <<stepVars, callVars, layerVars, inputVars, loopVars, result, reprocessed>>

NextFallback == FallbackBegin \/ PlaceItem \/ RetryStep \/ AcceptItem \/ FallbackReturn

\* the planner alone; its steps are taken one after the other by one thread
SpecFallback == Init /\ [][NextFallback]_vars /\ WF_vars(NextFallback)

----------------------------------------------------------------------------
(* The arrangement pipeline: arrangeFurniture                              *)

\* Positions the layout proposer may return for an item; it is free to put
\* two items on one point or outside a small room.
AIPoints == {[x |-> 120, y |-> 135, rotation |-> 0],
             [x |-> 60, y |-> 65, rotation |-> 90]}

\* an id the proposer may invent: it names no item of the furniture list
UnknownId == Id("unknown-item", "")

\* one element of the proposer's placementZones
AIZone(id, point) ==
  [furnitureId |-> id,
   zone |-> [x |-> point.x, y |-> point.y,
             rotation |-> point.rotation, priority |-> 1],
   reasoning |-> "proposed",
   isSymmetrical |-> FALSE,
   symmetryPartner |-> Id("", "")]

\* s with e inserted so that it becomes element k
InsertAt(s, k, e) == SubSeq(s, 1, k - 1) \o <<e>> \o SubSeq(s, k, Len(s))

\* The placementZones the proposer may return for a furniture list: one zone
\* per item at any of the points, or one zone per item plus one zone that
\* references an unknown furniture id, at any place of the list.
AIZoneLists(selected) ==
  LET n == Len(selected)
      point == CHOOSE q \in AIPoints : q.rotation = 0
  IN {[i \in 1..n |-> AIZone(selected[i].id, points[i])] :
        points \in [1..n -> AIPoints]}
     \cup {InsertAt([i \in 1..n |-> AIZone(selected[i].id, point)], k,
                     AIZone(UnknownId, point)) : k \in 1..(n + 1)}

\* generateArrangementStrategy returned the proposer's object
GenerateAIStrategy ==
  /\ pc = "start"
  /\ \E zones \in AIZoneLists(selectedFurniture) :
       aiArrangementStrategy' =
         [strategy |-> "AI layout",
          placementZones |-> zones,
          skippedFurniture |-> <<>>,
          spaceUtilizationAnalysis |->
            [totalFurnitureArea |-> totalFurnitureAreaOf(selectedFurniture),
             roomArea |-> room.dimensions.width * room.dimensions.length,
             isOptimal |-> TRUE]]
  /\ pc' = "strategy"
  /\ UNCHANGED <<stepVars, callVars, layerVars, inputVars, loopVars, result, reprocessed>>

\* v.toFixed(1): v in 1/20 ft, the result in tenths of a foot; a tie is
\* rounded away from zero
ToFixed1(v) == IF v >= 0 THEN (v + 1) \div 2 ELSE -((1 - v) \div 2)

\* A placement text is "<name> positioned at center (<x>, <y>) - <tail>";
\* head is the part before the first " -" (no name and no coordinate of the
\* model contains one).
PlacementText(name, px, py, why) ==
  [head |-> [name |-> name, x |-> ToFixed1(px), y |-> ToFixed1(py)],
   tail |-> [kind |-> "reasoning", text |-> why, x |-> 0, y |-> 0]]

\* `${placement.split(' -')[0]} - SYMMETRICAL <side> at (<x>, <y>)`
SymmetricalText(text, side, px, py) ==
  [head |-> text.head,
   tail |-> [kind |-> side, text |-> "", x |-> ToFixed1(px), y |-> ToFixed1(py)]]

\* a mapping that keeps the placements of unknown items
NeverDropped(item) == FALSE

\* if (!furniture) return null, and the filter that removes the nulls
IsDropped(item) == item = NoItem

\* placementZones.map(...).filter(item => item !== null)
RECURSIVE MapPlacements(_, _)
MapPlacements(zones, selected) ==
  IF zones = <<>> THEN <<>>
  ELSE LET placement == zones[1]
           item == FindFurniture(selected, placement.furnitureId)
       IN IF IsDropped(item) THEN MapPlacements(Tail(zones), selected)
          ELSE <<[furnitureId |-> item.id,
                  position |-> [x |-> placement.zone.x, y |-> placement.zone.y,
                                z |-> 0, rotation |-> placement.zone.rotation],
                  placement |-> PlacementText(item.name, placement.zone.x,
                                              placement.zone.y, placement.reasoning),
                  aiReasoning |-> placement.reasoning,
                  isSymmetrical |-> placement.isSymmetrical,
                  symmetryPartner |-> placement.symmetryPartner]>>
               \o MapPlacements(Tail(zones), selected)

\* category_id === 'bed-frame' || name.toLowerCase().includes('bed')
IsBed(item) ==
  item # NoItem /\ (item.category_id = "bed-frame" \/ NameIncludes(item.name, "bed"))

\* arrangement.find(...): index of the first bed placement, 0 for undefined
bedItemOf(arrangement, selected) ==
  LET beds == {i \in 1..Len(arrangement) :
                 IsBed(FindFurniture(selected, arrangement[i].furnitureId))}
  IN IF beds = {} THEN 0 ELSE CHOOSE i \in beds : \A j \in beds : i <= j

shouldBeSymmetrical(item) ==
  \/ NameIncludes(item.name, "nightstand")
  \/ NameIncludes(item.name, "side table")
  \/ NameIncludes(item.name, "table lamp")
  \/ item.category_id = "nightstand"
  \/ item.category_id = "side-table"

\* an enforcer that skips no item
NeverSkips(item) == FALSE

\* the accent chair / dining chair test that returns before grouping
SkipsSymmetry(item) ==
  \/ NameIncludes(item.name, "accent chair")
  \/ NameIncludes(item.name, "dining chair")
  \/ item.category_id = "accent-chair"
  \/ item.category_id = "dining-chair"

\* the key under which placement i is put into furnitureGroups, if it is
InSymmetryGroup(arrangement, selected, i) ==
  LET item == FindFurniture(selected, arrangement[i].furnitureId)
  IN item # NoItem /\ ~SkipsSymmetry(item) /\ shouldBeSymmetrical(item)

GroupKey(arrangement, selected, i) ==
  BaseName(FindFurniture(selected, arrangement[i].furnitureId).name)

\* furnitureGroups.get(baseName): the placements of a group, in order
GroupMembers(arrangement, selected, baseName) ==
  Ascending({i \in 1..Len(arrangement) :
               /\ InSymmetryGroup(arrangement, selected, i)
               /\ GroupKey(arrangement, selected, i) = baseName})

\* the keys of furnitureGroups in insertion order
GroupKeys(arrangement, selected) ==
  LET firsts == {i \in 1..Len(arrangement) :
                   /\ InSymmetryGroup(arrangement, selected, i)
                   /\ \A j \in 1..(i - 1) :
                        ~(/\ InSymmetryGroup(arrangement, selected, j)
                          /\ GroupKey(arrangement, selected, j)
                               = GroupKey(arrangement, selected, i))}
      order == Ascending(firsts)
  IN [k \in 1..Len(order) |-> GroupKey(arrangement, selected, order[k])]

\* a nightstand group that found a bed and overrides its members anyway
NightstandOverride(found) == FALSE

\* "return; // Skip symmetry override": with a bed the group is left alone
NightstandSkip(found) == found

\* the callback of furnitureGroups.forEach for one group
EnforceGroup(arrangement, selected, rm, baseName) ==
  LET items == GroupMembers(arrangement, selected, baseName)
  IN IF Len(items) # 2 THEN arrangement
     ELSE
       LET i1 == items[1]
           i2 == items[2]
           item1 == arrangement[i1]
           item2 == arrangement[i2]
           furniture1 == FindFurniture(selected, item1.furnitureId)
           roomCenterY == rm.dimensions.length \div 2
           isNightstand == NameIncludes(baseName, "nightstand")
           bed == bedItemOf(arrangement, selected)
           avgY == (item1.position.y + item2.position.y) \div 2
           itemWidth == furniture1.dimensions[2]
           target ==
             IF isNightstand THEN
               [leftX |-> itemWidth \div 2,
                rightX |-> rm.dimensions.width - itemWidth \div 2,
                symmetricalY |-> IF bed # 0 THEN arrangement[bed].position.y
                                 ELSE roomCenterY]
             ELSE IF NameIncludes(baseName, "chair") THEN
               [leftX |-> Frac(rm.dimensions.width, 25),
                rightX |-> Frac(rm.dimensions.width, 75),
                symmetricalY |-> Min(avgY, roomCenterY - 20)]
             ELSE
               [leftX |-> itemWidth \div 2 + 20,
                rightX |-> rm.dimensions.width - (itemWidth \div 2 + 20),
                symmetricalY |-> Max(roomCenterY, avgY)]
           left == IF item1.position.x < item2.position.x THEN i1 ELSE i2
           right == IF item1.position.x < item2.position.x THEN i2 ELSE i1
       IN IF isNightstand /\ NightstandSkip(bed # 0) THEN arrangement
          ELSE [i \in 1..Len(arrangement) |->
                  IF i = left THEN
                    [arrangement[i] EXCEPT
                       !.position.x = target.leftX,
                       !.position.y = target.symmetricalY,
                       !.placement = SymmetricalText(@, "SYMMETRICAL LEFT",
                                        target.leftX, target.symmetricalY)]
                  ELSE IF i = right THEN
                    [arrangement[i] EXCEPT
                       !.position.x = target.rightX,
                       !.position.y = target.symmetricalY,
                       !.placement = SymmetricalText(@, "SYMMETRICAL RIGHT",
                                        target.rightX, target.symmetricalY)]
                  ELSE arrangement[i]]

RECURSIVE EnforceGroups(_, _, _, _)
EnforceGroups(arrangement, selected, rm, keys) ==
  IF keys = <<>> THEN arrangement
  ELSE EnforceGroups(EnforceGroup(arrangement, selected, rm, keys[1]),
                     selected, rm, Tail(keys))

\* The bed block at the top of the function computes bedX and bedY and
\* assigns them to nothing, so it has no counterpart here.
enforceSymmetricalArrangement(arrangement, selected, rm) ==
  EnforceGroups(arrangement, selected, rm, GroupKeys(arrangement, selected))

\* the placeholder "sum + 4" square feet per placement, in (1/20 ft)^2
PlaceholderArea == 1600

\* the quotient furnitureArea / totalRoomArea, kept as a fraction
calculateSpaceUtilization(arrangement, roomDimensions) ==
  [num |-> Len(arrangement) * PlaceholderArea,
   den |-> roomDimensions.width * roomDimensions.length]

FallbackMarker == "Smart room-aware fallback arrangement"

\* arrangeFurniture from the strategy on: map, post-process, measure
ArrangeFurniture ==
  /\ pc = "strategy"
  /\ LET isAIStrategy == aiArrangementStrategy.strategy # FallbackMarker
         mapped == MapPlacements(aiArrangementStrategy.placementZones,
                                 selectedFurniture)
         arrangement == enforceSymmetricalArrangement(mapped, selectedFurniture, room)
     IN result' =
          [arrangement |-> arrangement,
           spaceUtilization |-> calculateSpaceUtilization(arrangement, room.dimensions),
           arrangementType |-> IF isAIStrategy THEN "AI-generated" ELSE "Fallback",
           isUsingFallback |-> ~isAIStrategy]
  /\ pc' = "arranged"
  /\ UNCHANGED <<stepVars, callVars, layerVars, inputVars, loopVars, aiArrangementStrategy, reprocessed>>

\* a caller runs the post-processing again on the finalized placements
Reprocess ==
  /\ pc = "arranged"
  /\ reprocessed' = enforceSymmetricalArrangement(result.arrangement,
                                                  selectedFurniture, room)
  /\ pc' = "reprocessed"
  /\ UNCHANGED <<stepVars, callVars, layerVars, inputVars, loopVars, aiArrangementStrategy, result>>

Next ==
  \/ GenerateAIStrategy
  \/ FallbackBegin \/ PlaceItem \/ RetryStep \/ AcceptItem \/ FallbackReturn
  \/ ArrangeFurniture
  \/ Reprocess

Spec == Init /\ [][Next]_vars

----------------------------------------------------------------------------
(* Scenario 1: a caller layers a footprint list, then layers the result    *)

MaxFootprints == 3

FootprintXs == {0, 4, 8}
FootprintYs == {0, 4}
FootprintShapes == {<<2, 2>>, <<6, 2>>, <<6, 4>>}    \* <<width, length>>

Footprints == {[x |-> px, y |-> py, width |-> s[1], length |-> s[2]] :
                 px \in FootprintXs, py \in FootprintYs, s \in FootprintShapes}

InitLayer ==
  /\ pc = "footprints"
  /\ \E n \in 0..MaxFootprints :
       \E fp \in [1..n -> Footprints] :
         furniture = [i \in 1..n |->
                        [id |-> i, x |-> fp[i].x, y |-> fp[i].y,
                         width |-> fp[i].width, length |-> fp[i].length]]
  /\ layered = <<>>
  /\ relayered = <<>>
  /\ room = NoRoom
  /\ selectedFurniture = <<>>
  /\ IdleLoop
  /\ aiArrangementStrategy = NoStrategy
  /\ result = NoResult
  /\ reprocessed = <<>>
  /\ NoCall
  /\ NoFlow
  /\ NoSelection

Layer ==
  /\ pc = "footprints"
  /\ layered' = assignLayeringOrder(furniture)
  /\ pc' = "layered"
  /\ UNCHANGED <<furniture, relayered, inputVars, loopVars, outputVars, callVars, stepVars>>

Relayer ==
  /\ pc = "layered"
  /\ relayered' = assignLayeringOrder(layered)
  /\ pc' = "relayered"
  /\ UNCHANGED <<furniture, layered, inputVars, loopVars, outputVars, callVars, stepVars>>

NextLayer == Layer \/ Relayer

SpecLayer == InitLayer /\ [][NextLayer]_vars

----------------------------------------------------------------------------
(* Claims about layering                                                   *)

\* C1 (as stated): of any two directly overlapping footprints of the list
\* with different areas, the larger has the strictly smaller layerOrder.
C1_LargerBelowAnyOverlap ==
  pc = "layered" =>
    \A i, j \in 1..Len(layered) :
      (detectOverlap(layered[i], layered[j]) /\ layered[i].area > layered[j].area)
        => layered[i].layerOrder < layered[j].layerOrder

\* C1 (amended): of any two directly overlapping footprints that were
\* collected into the same cluster (a seed and the not yet clustered later
\* items overlapping the seed), the larger has the strictly smaller
\* layerOrder.
C1_LargerBelowWithinCluster ==
  pc = "layered" =>
    \A i, j \in 1..Len(layered) :
      (/\ detectOverlap(layered[i], layered[j])
       /\ layered[i].cluster = layered[j].cluster
       /\ layered[i].area > layered[j].area)
        => layered[i].layerOrder < layered[j].layerOrder

\* a three-item list in which a larger footprint came after a smaller one
\* it overlaps, both in one cluster: the group sort had to reorder them
C1_Witness ==
  /\ pc = "layered"
  /\ Len(layered) = 3
  /\ \E i, j \in 1..Len(layered) :
       /\ detectOverlap(layered[i], layered[j])
       /\ layered[i].cluster = layered[j].cluster
       /\ layered[i].area > layered[j].area
       /\ layered[i].originalIndex > layered[j].originalIndex
       /\ layered[i].layerOrder = 0
       /\ layered[j].layerOrder = 1

\* C2: layering the returned list again gives every item the same
\* layerOrder and the same output order as the first application.
C2_LayeringFixedPoint ==
  pc = "relayered" =>
    /\ Len(relayered) = Len(layered)
    /\ \A k \in 1..Len(layered) :
         /\ relayered[k].id = layered[k].id
         /\ relayered[k].layerOrder = layered[k].layerOrder

----------------------------------------------------------------------------
(* Claims about the symmetry post-processing                               *)

\* the placements handed to enforceSymmetricalArrangement by arrangeFurniture
rawArrangement == MapPlacements(aiArrangementStrategy.placementZones,
                                selectedFurniture)

PositionsOf(arrangement) ==
  [i \in 1..Len(arrangement) |->
     <<arrangement[i].furnitureId, arrangement[i].position.x,
       arrangement[i].position.y>>]

\* C3: applying enforceSymmetricalArrangement to its own output leaves every
\* placement's x and y as the first application set them.
C3_SymmetryFixedPoint ==
  pc = "reprocessed" => PositionsOf(reprocessed) = PositionsOf(result.arrangement)

CategoryOf(placement) ==
  FindFurniture(selectedFurniture, placement.furnitureId).category_id

WidthOf(placement) ==
  FindFurniture(selectedFurniture, placement.furnitureId).dimensions[2]

\* C4: with a bed placement at y = Y0 and two placements of category
\* nightstand, after post-processing both nightstands have y = Y0 and their
\* x values are width/2 and room.width - width/2 in some order.
C4_NightstandsFlankBed ==
  pc = "arranged" =>
    LET arrangement == result.arrangement
        bed == bedItemOf(arrangement, selectedFurniture)
        nightstands == {i \in 1..Len(arrangement) :
                          CategoryOf(arrangement[i]) = "nightstand"}
    IN (bed # 0 /\ Cardinality(nightstands) = 2) =>
         /\ \A i \in nightstands :
              arrangement[i].position.y = arrangement[bed].position.y
         /\ {arrangement[i].position.x : i \in nightstands}
              = {WidthOf(arrangement[i]) \div 2 : i \in nightstands}
                \cup {room.dimensions.width - WidthOf(arrangement[i]) \div 2 :
                        i \in nightstands}

\* the members of the groups of exactly two whose base name contains
\* "nightstand"
NightstandPairMembers(arrangement) ==
  {i \in 1..Len(arrangement) :
     /\ InSymmetryGroup(arrangement, selectedFurniture, i)
     /\ NameIncludes(GroupKey(arrangement, selectedFurniture, i), "nightstand")
     /\ Len(GroupMembers(arrangement, selectedFurniture,
                         GroupKey(arrangement, selectedFurniture, i))) = 2}

----------------------------------------------------------------------------
(* Claims about the fallback planner                                       *)

FallbackDone ==
  pc = "strategy" /\ aiArrangementStrategy.strategy = FallbackStrategyName

ZoneItem(k) == selectedFurniture[k]

FitsX(item) == item.dimensions[2] <= room.dimensions.width
FitsY(item) == item.dimensions[1] <= room.dimensions.length

\* edges are compared doubled: 2 * (x - width / 2) = 2 * x - width
InsideX(z, item) ==
  /\ 2 * z.zone.x - item.dimensions[2] >= 0
  /\ 2 * z.zone.x + item.dimensions[2] <= 2 * room.dimensions.width
InsideY(z, item) ==
  /\ 2 * z.zone.y - item.dimensions[1] >= 0
  /\ 2 * z.zone.y + item.dimensions[1] <= 2 * room.dimensions.length

\* C6 (as stated): every center returned by the fallback planner keeps the
\* item's four edges inside the room, for every furniture list.
C6_AlwaysInsideRoom ==
  FallbackDone =>
    \A k \in 1..Len(aiArrangementStrategy.placementZones) :
      /\ InsideX(aiArrangementStrategy.placementZones[k], ZoneItem(k))
      /\ InsideY(aiArrangementStrategy.placementZones[k], ZoneItem(k))

\* C6 (amended): on every axis on which the item is not larger than the
\* room, the returned center keeps the item's edges inside the room.
C6_InsideRoomWhenFits ==
  FallbackDone =>
    \A k \in 1..Len(aiArrangementStrategy.placementZones) :
      /\ FitsX(ZoneItem(k)) =>
           InsideX(aiArrangementStrategy.placementZones[k], ZoneItem(k))
      /\ FitsY(ZoneItem(k)) =>
           InsideY(aiArrangementStrategy.placementZones[k], ZoneItem(k))

\* the planner returned an item that fits the room and whose initial
\* position had an edge outside it: the bounds check moved it inside
C6_Witness ==
  /\ FallbackDone
  /\ \E k \in 1..Len(aiArrangementStrategy.placementZones) :
       LET initial == InitialPlacement(room, selectedFurniture, k - 1)
           item == ZoneItem(k)
       IN /\ FitsX(item) /\ FitsY(item)
          /\ \/ 2 * initial.x + item.dimensions[2] > 2 * room.dimensions.width
             \/ 2 * initial.y - item.dimensions[1] < 0

\* C7: an item larger than the room on an axis has its center pinned to the
\* room's midpoint on that axis.
C7_OversizePinnedToMidpoint ==
  FallbackDone =>
    \A k \in 1..Len(aiArrangementStrategy.placementZones) :
      /\ ~FitsX(ZoneItem(k)) =>
           2 * aiArrangementStrategy.placementZones[k].zone.x = room.dimensions.width
      /\ ~FitsY(ZoneItem(k)) =>
           2 * aiArrangementStrategy.placementZones[k].zone.y = room.dimensions.length

\* the output's collision-exhausted flag of a zone (FALSE when the zone has
\* no such field)
FlaggedExhausted(z) ==
  "collisionExhausted" \in DOMAIN z /\ z["collisionExhausted"] = TRUE

ZoneTooClose(zi, zj, itemI, itemJ) ==
  /\ 2 * Abs(zi.zone.x - zj.zone.x)
       < itemI.dimensions[2] + itemJ.dimensions[2] + 2 * MinClearance
  /\ 2 * Abs(zi.zone.y - zj.zone.y)
       < itemI.dimensions[1] + itemJ.dimensions[1] + 2 * MinClearance

\* C8: every returned item keeps the 0.25 ft clearance from every item placed
\* before it, or is flagged as collision-exhausted in the output.
C8_ClearOrFlagged ==
  FallbackDone =>
    LET zones == aiArrangementStrategy.placementZones
    IN \A k \in 1..Len(zones) :
         \/ \A j \in 1..(k - 1) :
              ~ZoneTooClose(zones[k], zones[j], ZoneItem(k), ZoneItem(j))
         \/ FlaggedExhausted(zones[k])

\* C9: the planner terminates; the retry loop perturbs an item at most 10
\* times; the result has one zone per furniture item, in input order.
C9_TerminatesWithAllItems ==
  /\ [](attempts <= 10)
  /\ <>(pc = "strategy")
  /\ [](pc = "strategy" =>
          /\ Len(aiArrangementStrategy.placementZones) = Len(selectedFurniture)
          /\ \A k \in 1..Len(selectedFurniture) :
               aiArrangementStrategy.placementZones[k].furnitureId
                 = selectedFurniture[k].id)

\* the planner returned all three items of a list although the last one
\* used up its 10 perturbations and still collides
C9_Witness ==
  /\ FallbackDone
  /\ Len(aiArrangementStrategy.placementZones) = 3
  /\ attempts = 10
  /\ \E j \in 1..2 :
       ZoneTooClose(aiArrangementStrategy.placementZones[3],
                    aiArrangementStrategy.placementZones[j],
                    ZoneItem(3), ZoneItem(j))

----------------------------------------------------------------------------
(* Claims about the returned metrics                                       *)

RECURSIVE PlacedArea(_)
PlacedArea(arrangement) ==
  IF arrangement = <<>> THEN 0
  ELSE LET item == FindFurniture(selectedFurniture, arrangement[1].furnitureId)
       IN item.dimensions[1] * item.dimensions[2] + PlacedArea(Tail(arrangement))

\* C10: the returned spaceUtilization equals the sum of the placed items'
\* footprint areas divided by room.width x room.length.
C10_UtilizationIsAreaRatio ==
  pc = "arranged" =>
    result.spaceUtilization.num * (room.dimensions.width * room.dimensions.length)
      = PlacedArea(result.arrangement) * result.spaceUtilization.den

----------------------------------------------------------------------------
(* Claims about the fallback flag                                          *)

\* the strategy object is the one generateFallbackStrategy builds (only it
\* returns this strategy name)
ProducedByFallback == aiArrangementStrategy.strategy = FallbackStrategyName

\* C11: arrangeFurniture reports isUsingFallback = TRUE exactly when the
\* placements were produced by the fallback planner, FALSE exactly when they
\* came from the proposer.
C11_FallbackFlagMatchesSource ==
  pc = "arranged" => (result.isUsingFallback <=> ProducedByFallback)

----------------------------------------------------------------------------
(* Claims about dangling placements                                        *)

KnownId(selected, id) == \E i \in 1..Len(selected) : selected[i].id = id

RECURSIVE KnownZoneIds(_, _)
KnownZoneIds(zones, selected) ==
  IF zones = <<>> THEN <<>>
  ELSE (IF KnownId(selected, zones[1].furnitureId)
        THEN <<zones[1].furnitureId>> ELSE <<>>)
       \o KnownZoneIds(Tail(zones), selected)

\* C12: the returned arrangement holds exactly the raw placements whose
\* furnitureId is in the furniture list, in their original order; the
\* dangling ones are dropped and arrangeFurniture still returns.
C12_DanglingPlacementsDropped ==
  pc = "arranged" =>
    [i \in 1..Len(result.arrangement) |-> result.arrangement[i].furnitureId]
      = KnownZoneIds(aiArrangementStrategy.placementZones, selectedFurniture)

\* arrangeFurniture returned two placements although the proposer had put a
\* zone of an unknown furniture id between theirs
C12_Witness ==
  /\ pc = "arranged"
  /\ Len(aiArrangementStrategy.placementZones) = 3
  /\ aiArrangementStrategy.placementZones[2].furnitureId = UnknownId
  /\ Len(result.arrangement) = 2

----------------------------------------------------------------------------
(* Claims about which pairs are rewritten, and how                         *)

\* the categories the specification lists as symmetry-eligible
EligibleCategories ==
  {"nightstand", "side-table", "end-table", "table-lamp", "floor-lamp"}

EligibleNames == {"nightstand", "side table", "table lamp"}

ItemOf(placement) == FindFurniture(selectedFurniture, placement.furnitureId)

\* placements i and j are the two members of a group of exactly two: they
\* share the normalized id and the base name, and no third placement does
PairOfTwo(arrangement, i, j) ==
  /\ i # j
  /\ \A k \in 1..Len(arrangement) :
       (/\ StripPairSuffix(arrangement[k].furnitureId)
             = StripPairSuffix(arrangement[i].furnitureId)
        /\ BaseName(ItemOf(arrangement[k]).name)
             = BaseName(ItemOf(arrangement[i]).name))
       <=> k \in {i, j}

Mirrored(arrangement, i, j) ==
  /\ arrangement[i].position.y = arrangement[j].position.y
  /\ arrangement[i].position.x + arrangement[j].position.x
       = room.dimensions.width

\* C13: a group of exactly two placements whose items' category is
\* nightstand, side-table, end-table, table-lamp or floor-lamp, or whose name
\* contains "nightstand", "side table" or "table lamp", leaves the symmetry
\* enforcer with one Y and mirrored X (chairs, which are excluded, apart).
C13_EligiblePairsRewritten ==
  pc = "arranged" =>
    \A i, j \in 1..Len(result.arrangement) :
      (/\ PairOfTwo(result.arrangement, i, j)
       /\ ItemOf(result.arrangement[i]).category_id
            \notin {"accent-chair", "dining-chair"}
       /\ \/ ItemOf(result.arrangement[i]).category_id \in EligibleCategories
          \/ \E needle \in EligibleNames :
               NameIncludes(ItemOf(result.arrangement[i]).name, needle))
      => Mirrored(result.arrangement, i, j)

\* the groups of exactly two placements the enforcer forms whose base name
\* does not contain "nightstand", as pairs <<i, j>> of positions with i < j
OtherEligiblePairs(arrangement) ==
  {p \in (1..Len(arrangement)) \X (1..Len(arrangement)) :
     /\ p[1] < p[2]
     /\ InSymmetryGroup(arrangement, selectedFurniture, p[1])
     /\ ~NameIncludes(GroupKey(arrangement, selectedFurniture, p[1]), "nightstand")
     /\ GroupMembers(arrangement, selectedFurniture,
                     GroupKey(arrangement, selectedFurniture, p[1])) = <<p[1], p[2]>>}

\* C14: a symmetry-eligible pair that is not a nightstand pair gets
\* Y = max(room.length / 2, average of the pair's Y), X = itemWidth / 2 + 1
\* for the member that had the smaller X and room.width - itemWidth / 2 - 1
\* for the other.
C14_GenericPairPositions ==
  pc = "arranged" =>
    \A p \in OtherEligiblePairs(rawArrangement) :
      LET before1 == rawArrangement[p[1]].position
          before2 == rawArrangement[p[2]].position
          after1 == result.arrangement[p[1]].position
          after2 == result.arrangement[p[2]].position
          itemWidth == ItemOf(rawArrangement[p[1]]).dimensions[2]
          leftX == itemWidth \div 2 + 20
          rightX == room.dimensions.width - itemWidth \div 2 - 20
          symmetricalY == Max(room.dimensions.length \div 2,
                              (before1.y + before2.y) \div 2)
      IN /\ after1.y = symmetricalY
         /\ after2.y = symmetricalY
         /\ {<<after1.x, after2.x>>} \subseteq {<<leftX, rightX>>, <<rightX, leftX>>}
         /\ before1.x < before2.x => after1.x = leftX
         /\ before2.x < before1.x => after2.x = leftX

ChairPlacements(arrangement) ==
  {i \in 1..Len(arrangement) :
     ItemOf(arrangement[i]).category_id \in {"accent-chair", "dining-chair"}}

\* C15: a placement whose item has category accent-chair or dining-chair
\* keeps the x and y it was given, also when two such items form a pair.
C15_ChairsUntouched ==
  pc = "arranged" =>
    \A i \in ChairPlacements(rawArrangement) :
      /\ result.arrangement[i].position.x = rawArrangement[i].position.x
      /\ result.arrangement[i].position.y = rawArrangement[i].position.y

\* the two clones of an accent chair whose name also contains "side table"
\* went through the enforcer on one point and stayed there
C15_Witness ==
  /\ pc = "arranged"
  /\ \E i, j \in ChairPlacements(rawArrangement) :
       /\ PairOfTwo(rawArrangement, i, j)
       /\ shouldBeSymmetrical(ItemOf(rawArrangement[i]))
       /\ rawArrangement[i].position = rawArrangement[j].position
       /\ result.arrangement[i].position = result.arrangement[j].position

----------------------------------------------------------------------------
(* The pure functions of the workflow: classifyFurniture, findBestWall,     *)
(* detectOverlap, each called once on arguments of a bounded set           *)

\* Lengths of classifyFurniture and findBestWall are integers in half feet
\* (5 ft = 10, 1.5 ft = 3), areas in quarter square feet (15 sq ft = 60),
\* anchor coordinates in quarter feet; wallDistance is in half feet.

\* a first rule that also takes the footprints on a threshold
IsLargeInclusive(length, width, area) == length >= 10 \/ width >= 6 \/ area >= 60

\* length > 5 || width > 3 || area > 15
IsLarge(length, width, area) == length > 10 \/ width > 6 \/ area > 60

\* a second rule without its length-and-width disjunct
IsMediumByArea(length, width, area) == area > 24

\* area > 6 || (length > 2 && width > 1.5)
IsMedium(length, width, area) == area > 24 \/ (length > 4 /\ width > 3)

\* area > 2
IsSmall(length, width, area) == area > 8

classifyFurniture(item) ==
  LET length == item.dimensions[1]
      width == item.dimensions[2]
      area == length * width
  IN IF IsLarge(length, width, area)
     THEN [category |-> "large", priority |-> 1, wallDistance |-> 0, area |-> area]
     ELSE IF IsMedium(length, width, area)
     THEN [category |-> "medium", priority |-> 2, wallDistance |-> 0, area |-> area]
     ELSE IF IsSmall(length, width, area)
     THEN [category |-> "small", priority |-> 3, wallDistance |-> 0, area |-> area]
     ELSE [category |-> "accent", priority |-> 4, wallDistance |-> 2, area |-> area]

\* a candidate list that names the left wall before the right wall
WallsLeftFirst(item, rm) ==
  LET furnitureLength == item.dimensions[1]
      furnitureWidth == item.dimensions[2]
  IN <<[name |-> "back", length |-> rm.width, orientation |-> "horizontal",
        x |-> rm.width, y |-> 2 * rm.length - furnitureLength],
       [name |-> "left", length |-> rm.length, orientation |-> "vertical",
        x |-> furnitureWidth, y |-> rm.length],
       [name |-> "right", length |-> rm.length, orientation |-> "vertical",
        x |-> 2 * rm.width - furnitureWidth, y |-> rm.length],
       [name |-> "front", length |-> rm.width, orientation |-> "horizontal",
        x |-> rm.width, y |-> furnitureLength]>>

\* a candidate list whose anchors lie on the wall lines themselves
WallsOnTheLine(item, rm) ==
  <<[name |-> "back", length |-> rm.width, orientation |-> "horizontal",
     x |-> rm.width, y |-> 2 * rm.length],
    [name |-> "right", length |-> rm.length, orientation |-> "vertical",
     x |-> 2 * rm.width, y |-> rm.length],
    [name |-> "left", length |-> rm.length, orientation |-> "vertical",
     x |-> 0, y |-> rm.length],
    [name |-> "front", length |-> rm.width, orientation |-> "horizontal",
     x |-> rm.width, y |-> 0]>>

\* the walls array of findBestWall, in its order
Walls(item, rm) ==
  LET furnitureLength == item.dimensions[1]
      furnitureWidth == item.dimensions[2]
  IN <<[name |-> "back", length |-> rm.width, orientation |-> "horizontal",
        x |-> rm.width, y |-> 2 * rm.length - furnitureLength],
       [name |-> "right", length |-> rm.length, orientation |-> "vertical",
        x |-> 2 * rm.width - furnitureWidth, y |-> rm.length],
       [name |-> "left", length |-> rm.length, orientation |-> "vertical",
        x |-> furnitureWidth, y |-> rm.length],
       [name |-> "front", length |-> rm.width, orientation |-> "horizontal",
        x |-> rm.width, y |-> furnitureLength]>>

\* the filter callback: wall.length >= requiredLength
IsSuitable(wall, item) ==
  wall.length >= (IF wall.orientation = "horizontal"
                  THEN item.dimensions[2] ELSE item.dimensions[1])

\* a comparator that only looks at the span
LongestBefore(a, b) == b.length - a.length < 0

\* the sort comparator returns a negative number
WallBefore(a, b) ==
  IF a.name = "back" THEN TRUE
  ELSE IF b.name = "back" THEN FALSE
  ELSE b.length - a.length < 0

findBestWall(item, rm) ==
  LET walls == Walls(item, rm)
      suitableWalls == SelectSeq(walls, LAMBDA wall : IsSuitable(wall, item))
      sorted == StableSort(suitableWalls,
                  {p \in PositionPairs(suitableWalls) :
                     WallBefore(suitableWalls[p[1]], suitableWalls[p[2]])})
  IN IF sorted # <<>> THEN sorted[1] ELSE walls[1]

\* evaluateDecoration estimates 15 square feet per placement, in (1/20 ft)^2
AverageFootprint == 6000

\* Math.min(totalFurnitureArea / roomArea, 1.0), kept as a fraction; a room
\* of area 0 makes the quotient Infinity (NaN for no furniture)
SpaceUtilizationOf(rm, arrangement) ==
  [num |-> Len(arrangement) * AverageFootprint,
   den |-> rm.dimensions.width * rm.dimensions.length]

\* spaceUtilization > pct / 100
UtilizationAbove(u, pct) ==
  IF u.den = 0 THEN u.num > 0 ELSE u.num * 100 > pct * u.den

\* a scoring that gives a crowded room nothing
CrowdedScoresNothing(u) ==
  IF UtilizationAbove(u, 15) /\ ~UtilizationAbove(u, 35) THEN 25
  ELSE IF UtilizationAbove(u, 10) /\ ~UtilizationAbove(u, 50) THEN 20
  ELSE IF ~UtilizationAbove(u, 10) THEN 10
  ELSE 0

\* the space utilization scoring
SpaceScore(u) ==
  IF UtilizationAbove(u, 15) /\ ~UtilizationAbove(u, 35) THEN 25
  ELSE IF UtilizationAbove(u, 10) /\ ~UtilizationAbove(u, 50) THEN 20
  ELSE IF ~UtilizationAbove(u, 10) THEN 10
  ELSE 15

\* the traffic flow and furniture count scoring
TrafficScore(arrangement) ==
  IF Len(arrangement) >= 3 THEN 15
  ELSE IF Len(arrangement) >= 2 THEN 10
  ELSE 5

evaluateDecoration(rm, arrangement) ==
  LET furnitureCount == Len(arrangement)
      spaceUtilization == SpaceUtilizationOf(rm, arrangement)
  IN IF furnitureCount = 0
     THEN [score |-> 0, issues |-> <<"No furniture arranged - room is empty">>,
           passed |-> FALSE]
     ELSE LET summed == 30 + SpaceScore(spaceUtilization) + 20
                        + TrafficScore(arrangement) + 10
              score == IF summed < 70 /\ furnitureCount >= 2 THEN 70 ELSE summed
          IN [score |-> Min(score, 100), issues |-> <<>>, passed |-> score >= 70]

\* rooms and arrangements handed to evaluateDecoration: a room of area 0, a
\* small and a large one; placements on one point and outside a small room
EvalExtents == {0, 60, 200, 240, 400}
EvalRooms == {Room("bedroom", w, l) : w \in EvalExtents, l \in EvalExtents}
EvalPlacements ==
  {[furnitureId |-> UnknownId, position |-> [x |-> 120, y |-> 135, z |-> 0, rotation |-> 0]],
   [furnitureId |-> UnknownId, position |-> [x |-> 20, y |-> 20, z |-> 0, rotation |-> 90]]}
MaxArranged == 3
EvalArrangements ==
  UNION {[1..n -> EvalPlacements] : n \in 0..MaxArranged}

\* footprints handed to detectOverlap, degenerate ones included
OverlapFootprints ==
  {[x |-> px, y |-> py, width |-> w, length |-> l] :
     px \in {0, 2, 4}, py \in {0, 2}, w \in {0, 2, 4}, l \in {0, 2}}

\* items handed to classifyFurniture: <<length, width, height>>
ClassifiedItems ==
  {[dimensions |-> <<l, w, h>>] : l \in 0..12, w \in 0..8, h \in {2, 12}}

\* items and rooms handed to findBestWall
WallItems == {[dimensions |-> <<l, w, 2>>] : l \in 1..4, w \in 1..4}
WallRooms == {[width |-> w, length |-> l] : w \in 1..4, l \in 1..4}

CallArgs ==
  {[fn |-> "detectOverlap", item1 |-> a, item2 |-> b] :
     a \in OverlapFootprints, b \in OverlapFootprints}
  \cup {[fn |-> "classifyFurniture", furniture |-> f] : f \in ClassifiedItems}
  \cup {[fn |-> "findBestWall", furniture |-> f, room |-> r] :
          f \in WallItems, r \in WallRooms}
  \cup {[fn |-> "evaluateDecoration", room |-> r, arrangement |-> a] :
          r \in EvalRooms, a \in EvalArrangements}

InitCall ==
  /\ pc = "call"
  /\ args \in CallArgs
  /\ returned = NoReturn
  /\ NoFlow
  /\ NoSelection
  /\ furniture = <<>>
  /\ layered = <<>>
  /\ relayered = <<>>
  /\ room = NoRoom
  /\ selectedFurniture = <<>>
  /\ IdleLoop
  /\ aiArrangementStrategy = NoStrategy
  /\ result = NoResult
  /\ reprocessed = <<>>

CallDetectOverlap ==
  /\ pc = "call"
  /\ args.fn = "detectOverlap"
  /\ returned' = detectOverlap(args.item1, args.item2)
  /\ pc' = "returned"
  /\ UNCHANGED <<args, stepVars, layerVars, inputVars, loopVars, outputVars>>

CallClassifyFurniture ==
  /\ pc = "call"
  /\ args.fn = "classifyFurniture"
  /\ returned' = classifyFurniture(args.furniture)
  /\ pc' = "returned"
  /\ UNCHANGED <<args, stepVars, layerVars, inputVars, loopVars, outputVars>>

CallFindBestWall ==
  /\ pc = "call"
  /\ args.fn = "findBestWall"
  /\ returned' = findBestWall(args.furniture, args.room)
  /\ pc' = "returned"
  /\ UNCHANGED <<args, stepVars, layerVars, inputVars, loopVars, outputVars>>

CallEvaluateDecoration ==
  /\ pc = "call"
  /\ args.fn = "evaluateDecoration"
  /\ returned' = evaluateDecoration(args.room, args.arrangement)
  /\ pc' = "returned"
  /\ UNCHANGED <<args, stepVars, layerVars, inputVars, loopVars, outputVars>>

NextCall ==
  \/ CallDetectOverlap
  \/ CallClassifyFurniture
  \/ CallFindBestWall
  \/ CallEvaluateDecoration

SpecCall == InitCall /\ [][NextCall]_vars

----------------------------------------------------------------------------
(* Claims about detectOverlap                                              *)

OverlapReturned == pc = "returned" /\ args.fn = "detectOverlap"

\* doubled edges of a footprint
LeftOf(a) == 2 * a.x - a.width
RightOf(a) == 2 * a.x + a.width
TopOf(a) == 2 * a.y - a.length
BottomOf(a) == 2 * a.y + a.length

\* the projections on the X axis or on the Y axis are disjoint or touch
ApartOnAnAxis(a, b) ==
  \/ RightOf(a) <= LeftOf(b)
  \/ RightOf(b) <= LeftOf(a)
  \/ BottomOf(a) <= TopOf(b)
  \/ BottomOf(b) <= TopOf(a)

\* C16: detectOverlap(A, B) is false for all footprints whose projections
\* on the X axis or on the Y axis are disjoint or only touch.
C16_ApartMeansNoOverlap ==
  (OverlapReturned /\ ApartOnAnAxis(args.item1, args.item2)) => returned = FALSE

\* two footprints of positive size that share an edge and overlap on the
\* other axis were compared
C16_Witness ==
  /\ OverlapReturned
  /\ args.item1.width > 0 /\ args.item1.length > 0
  /\ args.item2.width > 0 /\ args.item2.length > 0
  /\ RightOf(args.item1) = LeftOf(args.item2)
  /\ TopOf(args.item1) = TopOf(args.item2)
  /\ returned = FALSE

\* C17 (as stated): detectOverlap(A, A) is true for any footprint A with
\* non-negative width and length.
C17_SelfOverlapNonNegative ==
  (/\ OverlapReturned
   /\ args.item1 = args.item2
   /\ args.item1.width >= 0 /\ args.item1.length >= 0) => returned = TRUE

\* C17 (amended): detectOverlap(A, A) is true for any footprint A with
\* positive width and length.
C17_SelfOverlapPositive ==
  (/\ OverlapReturned
   /\ args.item1 = args.item2
   /\ args.item1.width > 0 /\ args.item1.length > 0) => returned = TRUE

\* a footprint of positive size was compared with itself
C17_Witness ==
  /\ OverlapReturned
  /\ args.item1 = args.item2
  /\ args.item1.width > 0 /\ args.item1.length > 0
  /\ returned = TRUE

----------------------------------------------------------------------------
(* Claims about classifyFurniture                                          *)

ClassifyReturned == pc = "returned" /\ args.fn = "classifyFurniture"

\* the stated rules, first match wins, on <<length, width>> in half feet
StatedClass(length, width) ==
  LET area == length * width
  IN IF length > 10 \/ width > 6 \/ area > 60
       THEN [category |-> "large", priority |-> 1, wallDistance |-> 0]
     ELSE IF area > 24 \/ (length > 4 /\ width > 3)
       THEN [category |-> "medium", priority |-> 2, wallDistance |-> 0]
     ELSE IF area > 8
       THEN [category |-> "small", priority |-> 3, wallDistance |-> 0]
     ELSE [category |-> "accent", priority |-> 4, wallDistance |-> 2]

\* C18: classifyFurniture returns a value for every footprint, and that
\* value is the one the four rules give for (length, width), in their order,
\* whatever the height.
C18_ClassifierFollowsRules ==
  ClassifyReturned =>
    LET stated == StatedClass(args.furniture.dimensions[1],
                              args.furniture.dimensions[2])
    IN /\ returned.category = stated.category
       /\ returned.priority = stated.priority
       /\ returned.wallDistance = stated.wallDistance

\* a footprint that the second rule takes by its length-and-width disjunct
\* alone (area 5 sq ft, length 2.5, width 2) was classified medium
C18_Witness ==
  /\ ClassifyReturned
  /\ args.furniture.dimensions[1] = 5
  /\ args.furniture.dimensions[2] = 4
  /\ returned.category = "medium"

\* length exactly 5 ft or area exactly 15 sq ft
OnFirstThreshold(item) ==
  \/ item.dimensions[1] = 10
  \/ item.dimensions[1] * item.dimensions[2] = 60

\* C19 (as stated): a footprint with length exactly 5 or area exactly 15 is
\* put into the lower-numbered bucket, priority 1.
C19_BoundaryIsLarge ==
  (ClassifyReturned /\ OnFirstThreshold(args.furniture)) => returned.priority = 1

\* C19 (amended): a footprint with length exactly 5 or area exactly 15 that
\* exceeds no threshold of the first rule is not large: the later rules
\* classify it, priority 2 when its area is above 6 sq ft.
C19_BoundaryIsNotLarge ==
  (/\ ClassifyReturned
   /\ OnFirstThreshold(args.furniture)
   /\ args.furniture.dimensions[1] <= 10
   /\ args.furniture.dimensions[2] <= 6
   /\ args.furniture.dimensions[1] * args.furniture.dimensions[2] <= 60)
  => /\ returned.priority \in {2, 3, 4}
     /\ args.furniture.dimensions[1] * args.furniture.dimensions[2] > 24
          => returned.priority = 2

\* the 5 ft x 3 ft footprint, on the length and on the area threshold, was
\* classified medium
C19_Witness ==
  /\ ClassifyReturned
  /\ args.furniture.dimensions[1] = 10
  /\ args.furniture.dimensions[2] = 6
  /\ returned.priority = 2

----------------------------------------------------------------------------
(* Claims about findBestWall                                               *)

WallReturned == pc = "returned" /\ args.fn = "findBestWall"

\* the walls whose span is at least the furniture's cross dimension
QualifyingWalls(item, rm) ==
  {wall \in {Walls(item, rm)[k] : k \in 1..4} : IsSuitable(wall, item)}

BackQualifies(item, rm) == item.dimensions[2] <= rm.width

\* C20: findBestWall returns the back wall whenever the furniture's width is
\* at most the room's width; otherwise a qualifying wall of greatest span
\* (a vertical wall qualifies when the furniture's length is at most the
\* room's length); and the back wall when no wall qualifies.
C20_BackThenLongestWall ==
  WallReturned =>
    LET item == args.furniture
        rm == args.room
        qualifying == QualifyingWalls(item, rm)
    IN IF BackQualifies(item, rm) THEN returned.name = "back"
       ELSE IF qualifying # {}
         THEN /\ returned \in qualifying
              /\ \A wall \in qualifying : wall.length <= returned.length
              /\ returned.orientation = "vertical"
              /\ item.dimensions[1] <= rm.length
       ELSE /\ returned.name = "back"
            /\ item.dimensions[1] > rm.length

\* the furniture is wider than the room but not longer: the back wall does
\* not qualify and a side wall was returned
C20_Witness ==
  /\ WallReturned
  /\ ~BackQualifies(args.furniture, args.room)
  /\ args.furniture.dimensions[1] <= args.room.length
  /\ returned.name = "right"

\* no wall qualifies and the back wall was returned all the same
C20_NoneQualifies ==
  /\ WallReturned
  /\ QualifyingWalls(args.furniture, args.room) = {}
  /\ returned.name = "back"

----------------------------------------------------------------------------
(* Claims about the order of the list assignLayeringOrder returns          *)

\* the list is in ascending layerOrder, and items of equal layerOrder are in
\* the order of their originalIndex
SortedByLayerThenIndex(list) ==
  \A i \in 1..Len(list) : \A j \in 1..Len(list) :
    i < j =>
      /\ list[i].layerOrder <= list[j].layerOrder
      /\ list[i].layerOrder = list[j].layerOrder
           => list[i].originalIndex < list[j].originalIndex

\* the list holds every input position exactly once
PermutationOfInput(list, input) ==
  /\ Len(list) = Len(input)
  /\ {list[i].originalIndex : i \in 1..Len(list)} = 1..Len(input)

\* C21: the list returned by assignLayeringOrder holds the input items in
\* ascending layerOrder, items of equal layerOrder in their input order.
C21_SortedByLayerStable ==
  /\ pc \in {"layered", "relayered"} =>
       /\ PermutationOfInput(layered, furniture)
       /\ SortedByLayerThenIndex(layered)
  /\ pc = "relayered" =>
       /\ PermutationOfInput(relayered, layered)
       /\ SortedByLayerThenIndex(relayered)

\* the final sort moved an item in front of an earlier input item, and two
\* items of the same layerOrder were returned
C21_Witness ==
  /\ pc = "layered"
  /\ \E i \in 1..Len(layered) : \E j \in 1..Len(layered) :
       i < j /\ layered[i].originalIndex > layered[j].originalIndex
  /\ \E i \in 1..Len(layered) : \E j \in 1..Len(layered) :
       i < j /\ layered[i].layerOrder = layered[j].layerOrder

----------------------------------------------------------------------------
(* Claims about evaluateDecoration                                         *)

EvaluateReturned == pc = "returned" /\ args.fn = "evaluateDecoration"

\* C29: evaluateDecoration returns passed = true exactly when the
\* arrangement is not empty, whatever the room and the positions, and its
\* score is within 0..100.
C29_PassedIffNonEmpty ==
  EvaluateReturned =>
    /\ returned.passed <=> Len(args.arrangement) > 0
    /\ returned.score \in 0..100

\* a single placement in a room of 3 ft x 3 ft, which it does not fit in and
\* crowds, passed
C29_Witness ==
  /\ EvaluateReturned
  /\ Len(args.arrangement) = 1
  /\ args.room.dimensions.width = 60
  /\ args.room.dimensions.length = 60
  /\ args.arrangement[1].position.x = 120
  /\ returned.passed
  /\ returned.score = 80

----------------------------------------------------------------------------
(* The decoration workflow from the arrangement step on:                   *)
(* furnitureArrangementStep, decorationEvaluationStep and                  *)
(* topViewVisualizationStep, chained with .then()                          *)

RoomMissing == "Room data is missing from inputData"
FurnitureMissing == "Selected furniture data is missing from inputData"
PreferencesMissing == "Arrangement preferences data is missing from inputData"
SaveFailed == "Failed to save visualization"

\* a step that validates nothing
NeverMissing(present) == FALSE

\* !inputData.field
IsMissing(present) == ~present

\* The arrangement step may be handed an inputData that lacks fields; a
\* field that is present holds a room or a furniture list of the pipeline.
InitWorkflow ==
  /\ pc = "arrangement-step"
  /\ inputData \in [room : BOOLEAN, selectedFurniture : BOOLEAN,
                    arrangementPreferences : BOOLEAN]
  /\ room \in (IF inputData.room THEN Rooms ELSE {NoRoom})
  /\ selectedFurniture \in (IF inputData.selectedFurniture
                            THEN FurnitureLists ELSE {<<>>})
  /\ error = ""
  /\ evaluation = NoEvaluation
  /\ visualization = NoVisualization
  /\ furniture = <<>>
  /\ layered = <<>>
  /\ relayered = <<>>
  /\ IdleLoop
  /\ aiArrangementStrategy = NoStrategy
  /\ result = NoResult
  /\ reprocessed = <<>>
  /\ NoCall
  /\ NoSelection

\* furnitureArrangementStep.execute up to the call of the arrangement tool
\* (the decoration agent is registered)
ValidateInputData ==
  /\ pc = "arrangement-step"
  /\ IF IsMissing(inputData.room)
       THEN error' = RoomMissing /\ pc' = "failed"
     ELSE IF IsMissing(inputData.selectedFurniture)
       THEN error' = FurnitureMissing /\ pc' = "failed"
     ELSE IF IsMissing(inputData.arrangementPreferences)
       THEN error' = PreferencesMissing /\ pc' = "failed"
     ELSE error' = error /\ pc' = "start"
  /\ UNCHANGED <<inputData, evaluation, visualization, selectVars, callVars,
                 layerVars, inputVars, loopVars, outputVars>>

\* furnitureArrangementStep returns directResult.arrangement as it is, and
\* decorationEvaluationStep.execute hands it to evaluateDecoration
DecorationEvaluationStep ==
  /\ pc = "arranged"
  /\ evaluation' = evaluateDecoration(room, result.arrangement)
  /\ pc' = "evaluated"
  /\ UNCHANGED <<inputData, error, visualization, selectVars, callVars,
                 layerVars, inputVars, loopVars, outputVars>>

\* dimensions[k] || 2
OrTwoFeet(v) == IF v = 0 THEN 40 ELSE v

\* arrangement.map(...).filter(item => item !== null) of the visualization
RECURSIVE VisualFurniture(_, _)
VisualFurniture(arrangement, selected) ==
  IF arrangement = <<>> THEN <<>>
  ELSE LET item == arrangement[1]
           furnitureItem == FindFurniture(selected, item.furnitureId)
           isRotated90 == item.position.rotation \in {90, 270}
           originalLength == OrTwoFeet(furnitureItem.dimensions[1])
           originalWidth == OrTwoFeet(furnitureItem.dimensions[2])
       IN IF furnitureItem = NoItem
          THEN VisualFurniture(Tail(arrangement), selected)
          ELSE <<[id |-> item.furnitureId,
                  x |-> item.position.x, y |-> item.position.y,
                  width |-> IF isRotated90 THEN originalLength ELSE originalWidth,
                  length |-> IF isRotated90 THEN originalWidth ELSE originalLength]>>
               \o VisualFurniture(Tail(arrangement), selected)

\* topViewVisualizationStep.execute: it runs whenever the evaluation step
\* returned; writing the HTML file may fail
TopViewVisualizationStep ==
  /\ pc = "evaluated"
  /\ \E saved \in BOOLEAN :
       IF saved
       THEN /\ visualization' =
                 [roomDimensions |->
                    [width |-> IF room.dimensions.width = 0 THEN 280
                               ELSE room.dimensions.width,
                     length |-> IF room.dimensions.length = 0 THEN 240
                                ELSE room.dimensions.length],
                  furniture |-> assignLayeringOrder(
                                  VisualFurniture(result.arrangement,
                                                  selectedFurniture))]
            /\ error' = error
            /\ pc' = "visualized"
       ELSE /\ visualization' = visualization
            /\ error' = SaveFailed
            /\ pc' = "failed"
  /\ UNCHANGED <<inputData, evaluation, selectVars, callVars,
                 layerVars, inputVars, loopVars, outputVars>>

NextWorkflow ==
  \/ ValidateInputData
  \/ GenerateAIStrategy
  \/ FallbackBegin \/ PlaceItem \/ RetryStep \/ AcceptItem \/ FallbackReturn
  \/ ArrangeFurniture
  \/ DecorationEvaluationStep
  \/ TopViewVisualizationStep

SpecWorkflow == InitWorkflow /\ [][NextWorkflow]_vars

----------------------------------------------------------------------------
(* Claims about the workflow                                               *)

\* the visualization step was entered: it returned or failed to save
VisualizationExecuted == pc = "visualized" \/ error = SaveFailed

\* C22: the visualization step executes only if the evaluation step reported
\* passed = true.
C22_VisualizationOnlyIfPassed ==
  VisualizationExecuted => evaluation.passed

\* every field the arrangement needs is present
InputsPresent ==
  inputData.room /\ inputData.selectedFurniture /\ inputData.arrangementPreferences

\* nothing of an arrangement has been computed
NothingPlaced ==
  /\ aiArrangementStrategy = NoStrategy
  /\ placementZones = <<>>
  /\ placedFurniture = <<>>
  /\ result = NoResult

\* two placements of the arrangement with the same centre
SomeOverlap(arrangement) ==
  \E i \in 1..Len(arrangement) : \E j \in 1..Len(arrangement) :
    /\ i < j
    /\ arrangement[i].position.x = arrangement[j].position.x
    /\ arrangement[i].position.y = arrangement[j].position.y

\* a placement whose centre is outside the room
SomeOutOfBounds(arrangement, rm) ==
  \E i \in 1..Len(arrangement) :
    \/ arrangement[i].position.x > rm.dimensions.width
    \/ arrangement[i].position.y > rm.dimensions.length

\* C23: when the room or the furniture list is absent the arrangement step
\* raises an error before any placement is computed and returns no
\* arrangement; with every input present it never raises, overlapping and
\* out-of-bounds placements included.
C23_MissingInputsFailFast ==
  /\ (pc # "arrangement-step" /\ ~(inputData.room /\ inputData.selectedFurniture))
       => /\ pc = "failed"
          /\ error \in {RoomMissing, FurnitureMissing}
          /\ NothingPlaced
  /\ InputsPresent => error \in {"", SaveFailed}
  /\ (InputsPresent /\ pc \in {"strategy", "place", "collide"}) => error = ""

\* the furniture list is absent and the step has failed with its message
C23_Witness ==
  /\ pc = "failed"
  /\ inputData.room
  /\ ~inputData.selectedFurniture
  /\ error = FurnitureMissing
  /\ NothingPlaced

\* an arrangement with two placements on one point, one of them outside the
\* room, was returned without an error
C23_InvalidArrangementReturned ==
  /\ pc = "arranged"
  /\ error = ""
  /\ SomeOverlap(result.arrangement)
  /\ SomeOutOfBounds(result.arrangement, room)

----------------------------------------------------------------------------
(* Claims about the symmetry metadata of the fallback planner              *)

\* the ids of the furniture list whose id, positional suffix stripped, is
\* that of id
SharingBase(selected, id) ==
  {selected[i].id : i \in {k \in 1..Len(selected) :
                             StripPairSuffix(selected[k].id) = StripPairSuffix(id)}}

\* C24: in the fallback planner's output an item is marked isSymmetrical,
\* with symmetryPartner the other member's id, exactly when its id with the
\* positional suffix stripped is shared by exactly two items of the list.
C24_PairsMarkedSymmetrical ==
  (pc = "strategy" /\ aiArrangementStrategy.strategy = FallbackStrategyName) =>
    \A k \in 1..Len(aiArrangementStrategy.placementZones) :
      LET zone == aiArrangementStrategy.placementZones[k]
          sharing == SharingBase(selectedFurniture, zone.furnitureId)
      IN /\ zone.isSymmetrical <=> Cardinality(sharing) = 2
         /\ zone.isSymmetrical =>
              zone.symmetryPartner \in sharing \ {zone.furnitureId}

----------------------------------------------------------------------------
(* Claims about the initial positions of the fallback planner              *)

\* the planner returned its zones for a bedroom
BedroomPlanned ==
  /\ pc = "strategy"
  /\ aiArrangementStrategy.strategy = FallbackStrategyName
  /\ room.type = "bedroom"

\* the item fits in the room
FitsIn(item, rm) ==
  /\ item.dimensions[2] <= rm.dimensions.width
  /\ item.dimensions[1] <= rm.dimensions.length

\* C25: in a bedroom a bed-frame that is the first item placed and fits in
\* the room has its centre at x = half its width and y = room.length / 2.
C25_BedVerticallyCentered ==
  (/\ BedroomPlanned
   /\ selectedFurniture # <<>>
   /\ selectedFurniture[1].category_id = "bed-frame"
   /\ FitsIn(selectedFurniture[1], room))
  => LET zone == aiArrangementStrategy.placementZones[1].zone
     IN /\ 2 * zone.x = selectedFurniture[1].dimensions[2]
        /\ 2 * zone.y = room.dimensions.length

\* the planner has just computed the bounded initial position of the item
\* at index
InitialPositionTaken == pc = "collide" /\ attempts = 0

\* the position the placement table gives the item at idx, bounded
TablePosition(rm, selected, idx) ==
  LET item == selected[idx + 1]
      table == getUniversalSymmetricalPlacement(item, symmetricalPairs(selected),
                 rm.dimensions.width, rm.dimensions.length,
                 item.dimensions[2], item.dimensions[1], rm.type, idx)
  IN [x |-> Bounded(table.x, minCenterXOf(item), maxCenterXOf(rm, item)),
      y |-> Bounded(table.y, minCenterYOf(item), maxCenterYOf(rm, item)),
      reasoning |-> table.reasoning]

\* C26: in bedrooms and in living rooms alike, an item that is neither a
\* bed-frame nor a dresser starts from the position of the placement table,
\* never from the untouched default (2, 2).
C26_TableUsedInEveryRoom ==
  (/\ InitialPositionTaken
   /\ room.type \in {"bedroom", "living-room"}
   /\ selectedFurniture[index + 1].category_id \notin {"bed-frame", "dresser"})
  => LET table == TablePosition(room, selectedFurniture, index)
     IN /\ x = table.x
        /\ y = table.y
        /\ reasoning = table.reasoning

----------------------------------------------------------------------------
(* Further claims about findBestWall                                       *)

\* C27: the wall returned by findBestWall is "back" or "right"; "left" and
\* "front" are never selected.
C27_OnlyBackOrRight ==
  WallReturned => returned.name \in {"back", "right"}

\* the right wall was returned although the left wall qualifies just as well
C27_Witness ==
  /\ WallReturned
  /\ returned.name = "right"
  /\ \E wall \in QualifyingWalls(args.furniture, args.room) : wall.name = "left"

\* C28: whenever the returned wall qualifies for the furniture, the footprint
\* centred at the returned anchor lies inside the room (anchors are in
\* quarter feet, extents in half feet).
C28_AnchorInsideRoom ==
  (WallReturned /\ IsSuitable(returned, args.furniture)) =>
    LET furnitureLength == args.furniture.dimensions[1]
        furnitureWidth == args.furniture.dimensions[2]
    IN /\ returned.x - furnitureWidth >= 0
       /\ returned.x + furnitureWidth <= 2 * args.room.width
       /\ returned.y - furnitureLength >= 0
       /\ returned.y + furnitureLength <= 2 * args.room.length

\* the furniture is no wider and no longer than the room
FitsRoom(item, rm) ==
  /\ item.dimensions[2] <= rm.width
  /\ item.dimensions[1] <= rm.length

\* C28 (amended): whenever the furniture is no wider and no longer than the
\* room, the footprint centred at the returned anchor lies inside the room.
C28_AnchorInsideWhenFits ==
  (WallReturned /\ FitsRoom(args.furniture, args.room)) =>
    LET furnitureLength == args.furniture.dimensions[1]
        furnitureWidth == args.furniture.dimensions[2]
    IN /\ returned.x - furnitureWidth >= 0
       /\ returned.x + furnitureWidth <= 2 * args.room.width
       /\ returned.y - furnitureLength >= 0
       /\ returned.y + furnitureLength <= 2 * args.room.length

\* a footprint smaller than the room was anchored with its far edge on the
\* back wall and room to spare on the other three sides
C28_Witness ==
  /\ WallReturned
  /\ args.furniture.dimensions[1] < args.room.length
  /\ args.furniture.dimensions[2] < args.room.width
  /\ returned.name = "back"
  /\ returned.y + args.furniture.dimensions[1] = 2 * args.room.length
  /\ returned.x - args.furniture.dimensions[2] > 0

----------------------------------------------------------------------------
(* Furniture selection: selectFurnitureWithSymmetry                        *)

\* prices are whole dollars; the first item of each category's list, which
\* is the only one the function reads
BestItem(category) ==
  [id |-> Id(category, ""), category_id |-> category,
   price |-> CASE category = "bed-frame" -> 600
               [] category = "sofa" -> 800
               [] category = "nightstand" -> 150
               [] category = "side-table" -> 100
               [] category = "table-lamp" -> 50
               [] OTHER -> 200]

SelectCategories ==
  {"bed-frame", "sofa", "nightstand", "side-table", "table-lamp", "rug"}

MaxCategories == 3

\* the entries of the Map, in insertion order: distinct categories
CategoryMaps ==
  UNION {{m \in [1..n -> SelectCategories] :
            \A i \in 1..n : \A j \in 1..n : i # j => m[i] # m[j]} :
         n \in 0..MaxCategories}

Budgets == {0, 250, 700, 1000, 2000}
RoomTypes == {"bedroom", "living-room", "studio"}

\* roomPriorities[roomType] || ... || roomPriorities['default']
Priorities(roomType) ==
  CASE roomType = "bedroom" ->
         <<"bed-frame", "nightstand", "dresser", "accent-chair", "floor-lamp", "bench">>
    [] roomType = "living-room" ->
         <<"sofa", "coffee-table", "tv-stand", "accent-chair", "side-table", "floor-lamp">>
    [] OTHER ->
         <<"sofa", "bed-frame", "dining-table", "accent-chair", "coffee-table", "side-table">>

\* the caller's roomSymmetricalCategories
SymmetricalCategories(roomType) ==
  CASE roomType = "bedroom" -> {"nightstand", "table-lamp", "accent-chair", "side-table"}
    [] roomType = "living-room" -> {"accent-chair", "side-table", "table-lamp", "end-table"}
    [] OTHER -> {"accent-chair", "side-table", "nightstand", "table-lamp"}

\* a selection that never looks at the budget
AnyCost(cost, limit) == TRUE

\* totalCost + price <= budget
WithinBudget(cost, limit) == cost <= limit

\* item1 and item2 of a symmetrical pair
PairOf(bestItem) ==
  <<[bestItem EXCEPT !.id = Id(bestItem.id.stem, "-1")],
    [bestItem EXCEPT !.id = Id(bestItem.id.stem, "-2")]>>

\* furnitureByCategory.has(category)
HasCategory(category) ==
  \E k \in 1..Len(furnitureByCategory) : furnitureByCategory[k] = category

\* the room's type is the parameter roomType; its dimensions are not read
InitSelect ==
  /\ pc = "priorities"
  /\ furnitureByCategory \in CategoryMaps
  /\ budget \in Budgets
  /\ \E roomType \in RoomTypes : room = Room(roomType, 0, 0)
  /\ selectedFurniture = <<>>
  /\ totalCost = 0
  /\ symmetricalPairCount = 0
  /\ singleItems = 0
  /\ processedCategories = {}
  /\ categoryIndex = 0
  /\ furniture = <<>>
  /\ layered = <<>>
  /\ relayered = <<>>
  /\ IdleLoop
  /\ aiArrangementStrategy = NoStrategy
  /\ result = NoResult
  /\ reprocessed = <<>>
  /\ NoCall
  /\ NoFlow

\* a pair is pushed
PushPair(bestItem) ==
  /\ selectedFurniture' = selectedFurniture \o PairOf(bestItem)
  /\ totalCost' = totalCost + bestItem.price * 2
  /\ symmetricalPairCount' = symmetricalPairCount + 1
  /\ singleItems' = singleItems

\* a single item is pushed
PushSingle(bestItem) ==
  /\ selectedFurniture' = selectedFurniture \o <<bestItem>>
  /\ totalCost' = totalCost + bestItem.price
  /\ singleItems' = singleItems + 1
  /\ symmetricalPairCount' = symmetricalPairCount

PushNothing ==
  UNCHANGED <<selectedFurniture, totalCost, symmetricalPairCount, singleItems>>

\* one iteration of the loop over the priority categories
SelectPriorityCategory ==
  /\ pc = "priorities"
  /\ categoryIndex < Len(Priorities(room.type))
  /\ LET category == Priorities(room.type)[categoryIndex + 1]
         bestItem == BestItem(category)
     IN IF category \in processedCategories \/ ~HasCategory(category)
        THEN PushNothing /\ processedCategories' = processedCategories
        ELSE /\ processedCategories' = processedCategories \cup {category}
             /\ IF /\ category \in SymmetricalCategories(room.type)
                   /\ WithinBudget(totalCost + bestItem.price * 2, budget)
                THEN PushPair(bestItem)
                ELSE IF WithinBudget(totalCost + bestItem.price, budget)
                THEN PushSingle(bestItem)
                ELSE PushNothing
  /\ categoryIndex' = categoryIndex + 1
  /\ UNCHANGED <<pc, furnitureByCategory, budget, room, flowVars, callVars,
                 layerVars, loopVars, outputVars>>

\* the first loop is over; the loop over the Map's entries begins
PrioritiesDone ==
  /\ pc = "priorities"
  /\ categoryIndex >= Len(Priorities(room.type))
  /\ pc' = "remaining"
  /\ categoryIndex' = 0
  /\ UNCHANGED <<furnitureByCategory, budget, processedCategories, totalCost,
                 symmetricalPairCount, singleItems, inputVars, flowVars,
                 callVars, layerVars, loopVars, outputVars>>

\* one iteration of the loop over the categories not in the priority list
SelectRemainingCategory ==
  /\ pc = "remaining"
  /\ categoryIndex < Len(furnitureByCategory)
  /\ LET category == furnitureByCategory[categoryIndex + 1]
         bestItem == BestItem(category)
         remainingBudget == budget - totalCost
     IN IF category \in processedCategories
        THEN PushNothing
        ELSE IF remainingBudget >= bestItem.price /\ 10 * remainingBudget > budget
        THEN IF /\ category \in SymmetricalCategories(room.type)
                /\ WithinBudget(totalCost + bestItem.price * 2, budget)
             THEN PushPair(bestItem)
             ELSE IF WithinBudget(totalCost + bestItem.price, budget)
             THEN PushSingle(bestItem)
             ELSE PushNothing
        ELSE PushNothing
  /\ categoryIndex' = categoryIndex + 1
  /\ UNCHANGED <<pc, furnitureByCategory, budget, processedCategories, room,
                 flowVars, callVars, layerVars, loopVars, outputVars>>

\* the function returns selectedFurniture, totalCost and the two counts
SelectionReturn ==
  /\ pc = "remaining"
  /\ categoryIndex >= Len(furnitureByCategory)
  /\ pc' = "selected"
  /\ UNCHANGED <<selectVars, inputVars, flowVars, callVars, layerVars,
                 loopVars, outputVars>>

NextSelect ==
  \/ SelectPriorityCategory
  \/ PrioritiesDone
  \/ SelectRemainingCategory
  \/ SelectionReturn

SpecSelect == InitSelect /\ [][NextSelect]_vars

----------------------------------------------------------------------------
(* Claims about selectFurnitureWithSymmetry                                *)

RECURSIVE SumOfPrices(_)
SumOfPrices(items) ==
  IF items = <<>> THEN 0 ELSE items[1].price + SumOfPrices(Tail(items))

\* the selected items of a category
SelectedOf(category) ==
  {k \in 1..Len(selectedFurniture) : selectedFurniture[k].category_id = category}

\* a category has contributed nothing, one single item, or one pair
OneSingleOrOnePair(category) ==
  LET at == SelectedOf(category)
  IN \/ at = {}
     \/ /\ Cardinality(at) = 1
        /\ \A k \in at : selectedFurniture[k].id.suffix = ""
     \/ /\ Cardinality(at) = 2
        /\ {selectedFurniture[k].id.suffix : k \in at} = {"-1", "-2"}

\* C30: after every selection step totalCost <= budget, totalCost is the sum
\* of the prices of the selected items, the number of selected items is
\* 2 x symmetricalPairs + singleItems, and each category has contributed at
\* most one single item or one pair.
C30_SelectionInvariants ==
  pc \in {"priorities", "remaining", "selected"} =>
    /\ totalCost <= budget
    /\ totalCost = SumOfPrices(selectedFurniture)
    /\ Len(selectedFurniture) = 2 * symmetricalPairCount + singleItems
    /\ \A category \in SelectCategories : OneSingleOrOnePair(category)

\* a selection with a pair and a single item returned, one category of the
\* Map left out because it did not fit the budget
C30_Witness ==
  /\ pc = "selected"
  /\ symmetricalPairCount >= 1
  /\ singleItems >= 1
  /\ \E k \in 1..Len(furnitureByCategory) :
       /\ SelectedOf(furnitureByCategory[k]) = {}
       /\ totalCost + BestItem(furnitureByCategory[k]).price > budget

====
